---- MODULE Spec2Model ----
(***************************************************************************)
(* keyboard-timing: the four C capture programs (gui_windows.c,            *)
(* gui_macos.m, terminal_windows.c, terminal_macos.c) as one state         *)
(* machine.  `variant' selects the program; every action is one handler    *)
(* or one step of main of that program.                                    *)
(*                                                                         *)
(* Representation.  Strings of the programs are TLA+ strings.  The double  *)
(* fields timestamp_ms / event_timestamp_ms are held in integer            *)
(* microseconds (1 ms = 1000), the resolution "%.3f" prints.               *)
(* terminal_macos.c is the C file carried in src/c/build_windows.bat from  *)
(* line 15 on.                                                             *)
(***************************************************************************)
EXTENDS Integers, Sequences, FiniteSets, TLC

VARIABLES
    variant,            \* which of the four programs runs
    pc,                 \* position of main: "start", "loop", "terminating", "unwound", "exited"
    events,             \* events[]: the accepted records, events[1..event_count]
    event_count,        \* event_count
    modifier_key_down,  \* modifier_key_down[] (macOS variants)
    running,            \* running flag (terminal variants)
    queue,              \* posted-message queue of the main thread (Windows variants)
    quit_posted,        \* PostQuitMessage has been called on the main thread
    handler_quit,       \* WM_QUIT posted to the console-handler thread's own queue
    window,             \* "none", "open", "closed" (gui_macos), "destroyed" (gui_windows)
    clock,              \* the monotonic tick counter (QueryPerformanceCounter / mach_absolute_time)
    origin,             \* qpc_start / start_time_abs
    flush_log,          \* one entry per execution of write_csv: the context it ran in
    file,               \* the lines of the output file; << >> while no file exists
    fopen_log,          \* one entry per fopen call of write_csv: TRUE when it returned a stream
    stderr_errors,      \* the "Error: ..." lines printed on the error stream
    exit_code,          \* -1 while the process runs, else the exit code
    stops,              \* stop triggers the program has handled so far, with
                        \* "at_capacity" once one was handled with the buffer full
    last_outcome,       \* what the last raw delivery did: "none", "accepted", "ignored",
                        \* "dropped", or "dropped_toggle" for a flags-changed event dropped
    accepted_raw,       \* the raw event behind the newest record: its kind and whether the
                        \* platform flagged the key as already held
    mod_in,             \* input of the modifier-string specification
    mod_out,            \* its output, "" until computed
    key_in,             \* input of the key-name specification: a raw key identifier
    key_out             \* its output, "" until computed

vars == <<variant, pc, events, event_count, modifier_key_down, running, queue,
          quit_posted, handler_quit, window, clock, origin, flush_log, file,
          fopen_log, stderr_errors, exit_code, stops, last_outcome, accepted_raw,
          mod_in, mod_out, key_in, key_out>>

(***************************************************************************)
(* Bounds                                                                  *)
(***************************************************************************)
\* capacity of events[]; the programs are built with 100000
MAX_EVENTS == 2
\* the tick counter advances at most this many steps of TickStep after startup
MaxClock == 1
\* messages that can wait in a thread's posted-message queue
MaxQueue == 1
\* executions of write_csv after which nothing more is posted to the window
MaxWrites == 2

Variants == {"gui_windows", "gui_macos", "terminal_windows", "terminal_macos"}
GuiVariants == {"gui_windows", "gui_macos"}
TerminalVariants == {"terminal_windows", "terminal_macos"}
WindowsVariants == {"gui_windows", "terminal_windows"}
MacVariants == {"gui_macos", "terminal_macos"}

Modifiers == {"shift", "ctrl", "alt", "meta"}

(***************************************************************************)
(* Platform values                                                         *)
(***************************************************************************)
VK_ESCAPE == 27
VK_A == 65
VK_LWIN == 91
VK_OEM_COMMA == 188
kVK_ANSI_A == 0
kVK_Escape == 53
kVK_Shift == 56
kVK_Command == 55
kVK_UpArrow == 126
\* a key code outside modifier_key_down[256], as a posted (synthetic) event can carry
keycode_untracked == 300

\* QueryPerformanceFrequency: ticks per second
qpc_freq == 1000000
\* mach_timebase_info: nanoseconds per tick = numer / denom
timebase_numer == 125
timebase_denom == 3
\* ticks between two readings that differ: a quarter of a millisecond
TickStep(v) == IF v \in WindowsVariants THEN 250 ELSE 6000

(***************************************************************************)
(* ClockSource                                                             *)
(***************************************************************************)
\* qpc_to_ms with the operands of the difference exchanged
qpc_to_ms_swapped(now, start) == ((start - now) * 1000 * 1000) \div qpc_freq

\* gui_windows.c / terminal_windows.c qpc_to_ms: (now - qpc_start) * 1000.0 / qpc_freq
qpc_to_ms(now, start) == ((now - start) * 1000 * 1000) \div qpc_freq

\* gui_macos.m / terminal_macos.c abs_to_ms: (abs * numer) / (denom * 1000000); the
\* uint64 product abs * numer stays far below 2^64 for the tick counts of the model
abs_to_ms(abs) == (abs * timebase_numer) \div (timebase_denom * 1000)

\* the value of the tick counter when the process starts
BootTicks(v) == TickStep(v)

\* the readings a callback can take: the clock never goes back
Readings ==
    {t \in {clock, clock + TickStep(variant)} :
        t <= BootTicks(variant) + MaxClock * TickStep(variant)}

\* the platform's own time of an event generated at tick t, the tick counter
\* taken to start at boot: GetMessageTime() / kb->time count whole milliseconds,
\* [nsEvent timestamp] / CGEventGetTimestamp are as fine as the tick counter
event_time(v, t) ==
    IF v \in WindowsVariants THEN ((t * 1000) \div qpc_freq) * 1000 ELSE abs_to_ms(t)

(***************************************************************************)
(* ModifierTracker: build_modifier_string                                  *)
(***************************************************************************)
\* strncat(buf, s, n): append at most n characters of s
strncat(buf, s, n) ==
    IF n <= 0 THEN buf
    ELSE IF Len(s) <= n THEN buf \o s ELSE buf \o SubSeq(s, 1, n)

ModBufLen == 64

\* one "if (held) { if (!first) strncat(+); strncat(name); first = 0; }" block;
\* st = <<buf, first>>
mod_step(st, isheld, name) ==
    IF ~isheld THEN st
    ELSE LET b1 == IF st[2] THEN st[1]
                   ELSE strncat(st[1], "+", ModBufLen - Len(st[1]) - 1)
         IN  <<strncat(b1, name, ModBufLen - Len(b1) - 1), FALSE>>

mod_finish(st) == IF st[2] THEN "none" ELSE st[1]

\* gui_windows.c / terminal_windows.c: GetKeyState / GetAsyncKeyState of
\* VK_SHIFT, VK_CONTROL, VK_MENU
build_modifier_string_windows(held) ==
    LET s1 == mod_step(<<"", TRUE>>, "shift" \in held, "shift")
        s2 == mod_step(s1, "ctrl" \in held, "ctrl")
        s3 == mod_step(s2, "alt" \in held, "alt")
    IN  mod_finish(s3)

\* gui_macos.m / terminal_macos.c: Shift, Control, Option/Alternate, Command bits of flags
build_modifier_string_macos(held) ==
    LET s1 == mod_step(<<"", TRUE>>, "shift" \in held, "shift")
        s2 == mod_step(s1, "ctrl" \in held, "ctrl")
        s3 == mod_step(s2, "alt" \in held, "alt")
        s4 == mod_step(s3, "meta" \in held, "cmd")
    IN  mod_finish(s4)

build_modifier_string(v, held) ==
    IF v \in WindowsVariants THEN build_modifier_string_windows(held)
    ELSE build_modifier_string_macos(held)

(***************************************************************************)
(* KeyNameResolver                                                         *)
(***************************************************************************)
HexDigits == "0123456789abcdef"

RECURSIVE HexStr(_)
HexStr(n) ==
    IF n < 16 THEN SubSeq(HexDigits, n + 1, n + 1)
    ELSE HexStr(n \div 16) \o SubSeq(HexDigits, (n % 16) + 1, (n % 16) + 1)

\* printf "%02x" / "%02lx" / "%02llx" of a non-negative value
Hex02(n) == IF n < 16 THEN "0" \o HexStr(n) ELSE HexStr(n)

\* snprintf(buf, size, ...) and strncpy(dst, src, size - 1): at most size - 1 characters
Truncate(s, size) == IF Len(s) <= size - 1 THEN s ELSE SubSeq(s, 1, size - 1)

\* the characters 32..126, in code order (code 96, the grave accent, cannot be
\* written in a string of this language and is held as a second "'"; no key of
\* ToUnicode below produces it)
Printable == " !\"#$%&'()*+,-./0123456789:;<=>?@ABCDEFGHIJKLMNOPQRSTUVWXYZ[\\]^_'abcdefghijklmnopqrstuvwxyz{|}~"

Chr(c) == SubSeq(Printable, c - 31, c - 31)

\* ToUnicode(vk, scancode, keyboard_state, ...) under a US layout, on the keys of
\* the model: <<result, wchar[0]>>.  Letters give the lower-case character
\* (keyboard_state is filled by GetKeyboardState), Escape gives the control
\* character 27, the Windows key gives nothing.
ToUnicode(vk) ==
    IF vk >= 65 /\ vk <= 90 THEN <<1, vk + 32>>
    ELSE IF vk >= 48 /\ vk <= 57 THEN <<1, vk>>
    ELSE IF vk = 32 THEN <<1, 32>>
    ELSE IF vk = 188 THEN <<1, 44>>
    ELSE IF vk \in {8, 9, 13, 27} THEN <<1, vk>>
    ELSE <<0, 0>>

\* the named keys both Windows programs know
vk_name_common(vk) ==
    CASE vk = 13  -> "return"
      [] vk = 9   -> "tab"
      [] vk = 32  -> "space"
      [] vk = 8   -> "backspace"
      [] vk = 27  -> "escape"
      [] vk = 160 -> "shift_l"
      [] vk = 161 -> "shift_r"
      [] vk = 162 -> "ctrl_l"
      [] vk = 163 -> "ctrl_r"
      [] vk = 164 -> "alt_l"
      [] vk = 165 -> "alt_r"
      [] vk = 20  -> "capslock"
      [] vk = 46  -> "delete"
      [] vk = 37  -> "left"
      [] vk = 39  -> "right"
      [] vk = 38  -> "up"
      [] vk = 40  -> "down"
      [] OTHER    -> ""

\* the named keys only terminal_windows.c knows
vk_name_terminal(vk) ==
    CASE vk = 91  -> "win_l"
      [] vk = 92  -> "win_r"
      [] vk = 45  -> "insert"
      [] vk = 36  -> "home"
      [] vk = 35  -> "end"
      [] vk = 33  -> "pageup"
      [] vk = 34  -> "pagedown"
      [] OTHER    -> vk_name_common(vk)

\* gui_windows.c / terminal_windows.c vk_to_char, buf[16]
vk_to_char(v, vk) ==
    LET u == ToUnicode(vk)
        named == IF v = "terminal_windows" THEN vk_name_terminal(vk)
                 ELSE vk_name_common(vk)
    IN  IF u[1] = 1 /\ u[2] >= 32 /\ u[2] < 127 THEN Chr(u[2])
        ELSE IF named # "" THEN named
        ELSE Truncate("vk_0x" \o Hex02(vk), 16)

\* gui_macos.m: the table map[128] of keycode_to_char as its designators fill it,
\* entries 0x00..0x35 (the rest is NULL); "" is a NULL entry
MacKeyMapGui ==
    << "a", "s", "d", "f", "h", "g", "z", "x",
       "c", "v", "",  "b", "q", "w", "e", "r",
       "y", "t", "1", "2", "3", "4", "6", "5",
       "9", "7", "8", "0", "o", "u", "i", "p",
       "l", "j", "k", "n", "return", "", "m", "",
       "",  "",  "",  "",  "",  "",  "",  "",
       "tab", "space", "", "backspace", "", "escape" >>

\* terminal_macos.c: the table map[] of keycode_to_char, indexed by the kVK_
\* values of Carbon's Events.h; its last designator is kVK_Escape (0x35)
MacKeyMapTerminal ==
    << "a", "s", "d", "f", "h", "g", "z", "x",
       "c", "v", "",  "b", "q", "w", "e", "r",
       "y", "t", "1", "2", "3", "4", "6", "5",
       "",  "9", "7", "",  "8", "0", "",  "o",
       "u", "",  "i", "p", "return", "l", "j", "",
       "k", "",  "",  "",  "",  "n", "m", "",
       "tab", "space", "", "backspace", "", "escape" >>

MacMapEntry(map, k) == IF k >= 0 /\ k < Len(map) THEN map[k + 1] ELSE ""

\* gui_macos.m keycode_to_char(unsigned short): keycode < 128 && map[keycode],
\* else "0x%02x" in buf[8]
keycode_to_char_gui(keycode) ==
    IF keycode < 128 /\ MacMapEntry(MacKeyMapGui, keycode) # ""
    THEN MacMapEntry(MacKeyMapGui, keycode)
    ELSE Truncate("0x" \o Hex02(keycode), 8)

\* terminal_macos.c keycode_to_char(int64_t): 0 <= keycode < sizeof(map)/sizeof(map[0])
\* && map[keycode], else "0x%02llx" of the value as unsigned long long, in buf[8];
\* a negative keycode prints as sixteen hex digits that start with f's
keycode_to_char_terminal(keycode) ==
    IF keycode >= 0 /\ keycode < Len(MacKeyMapTerminal)
       /\ MacMapEntry(MacKeyMapTerminal, keycode) # ""
    THEN MacMapEntry(MacKeyMapTerminal, keycode)
    ELSE IF keycode < 0 THEN Truncate("0xffffffff", 8)
    ELSE Truncate("0x" \o Hex02(keycode), 8)

keycode_to_char(v, keycode) ==
    IF v = "gui_macos" THEN keycode_to_char_gui(keycode)
    ELSE keycode_to_char_terminal(keycode)

(***************************************************************************)
(* KeyEvent and the buffer                                                 *)
(***************************************************************************)
KeyEvent(seq, ts, ets, type, keycode, scancode, character, modifiers, is_repeat) ==
    [seq |-> seq, timestamp_ms |-> ts, event_timestamp_ms |-> ets,
     event_type |-> type, keycode |-> keycode, scancode |-> scancode,
     character |-> character, modifiers |-> modifiers, is_repeat |-> is_repeat]

\* a raw event as the platform delivered it: kind is "key_down", "key_up" or
\* "toggle" (flags changed), repeat its already-held indication
RawEvent(kind, repeat) == [kind |-> kind, repeat |-> repeat]
NoRaw == RawEvent("none", FALSE)

\* "if (event_count > MAX_EVENTS) return;": the off-by-one form of the guard
buffer_full_off_by_one == event_count > MAX_EVENTS

\* "if (event_count >= MAX_EVENTS) return;"
buffer_full == event_count >= MAX_EVENTS

\* "e->seq = event_count;": seq taken before the increment
next_seq_zero_based == event_count

\* "e->seq = event_count + 1;"
next_seq == event_count + 1

\* "KeyEvent *e = &events[event_count]; ...; event_count++;"
store_event(e) ==
    /\ events' = Append(events, e)
    /\ event_count' = event_count + 1
    /\ last_outcome' = "accepted"

\* a stop trigger reaches its handler
stop_handled(trigger) ==
    stops' = stops \cup {trigger}
                   \cup (IF event_count = MAX_EVENTS THEN {"at_capacity"} ELSE {})

\* the early return of a callback that drops or ignores the raw event
skip_event(outcome) ==
    /\ last_outcome' = outcome
    /\ UNCHANGED <<events, event_count, modifier_key_down, clock, accepted_raw>>

(***************************************************************************)
(* CsvWriter                                                               *)
(***************************************************************************)
Pad3(n) == IF n < 10 THEN "00" \o ToString(n)
           ELSE IF n < 100 THEN "0" \o ToString(n) ELSE ToString(n)

\* printf "%.3f" of a millisecond value held in microseconds
Fmt3(us) == ToString(us \div 1000) \o "." \o Pad3(us % 1000)

\* "%d,%.3f,%.3f,%s,%d,%d,%s,%s,%d"
csv_row(e) ==
    ToString(e.seq) \o "," \o Fmt3(e.timestamp_ms) \o "," \o Fmt3(e.event_timestamp_ms)
    \o "," \o e.event_type \o "," \o ToString(e.keycode) \o "," \o ToString(e.scancode)
    \o "," \o e.character \o "," \o e.modifiers \o "," \o ToString(e.is_repeat)

csv_header == "seq,timestamp_ms,event_timestamp_ms,event_type,keycode,scancode,character,modifiers,is_repeat"

\* the five "# key=value" lines; time(NULL) is read when write_csv runs
csv_metadata(v, now) ==
    << IF v \in WindowsVariants THEN "# platform=Windows-x86_64"
       ELSE "# platform=macOS-14.0-arm64",
       "# language=c",
       IF v \in GuiVariants THEN "# mode=gui" ELSE "# mode=terminal",
       IF v \in WindowsVariants THEN "# clock_source=QueryPerformanceCounter"
       ELSE "# clock_source=mach_absolute_time",
       "# start_time_utc=" \o ToString(now) >>

\* "for (int i = 0; i < event_count - 1; i++)": the loop that stops one row early
csv_rows_short_by_one == [i \in 1..(event_count - 1) |-> csv_row(events[i])]

\* "for (int i = 0; i < event_count; i++) fprintf(row of events[i])"
csv_rows == [i \in 1..event_count |-> csv_row(events[i])]

\* "Error: cannot open %s for writing"
cannot_open == "Error: cannot open"

\* write_csv that tries fopen a second time when the first attempt fails
write_csv_retrying(ctx) ==
    /\ flush_log' = Append(flush_log, ctx)
    /\ \E opened \in BOOLEAN, again \in BOOLEAN :
          /\ fopen_log' = IF opened THEN Append(fopen_log, TRUE)
                          ELSE fopen_log \o <<FALSE, again>>
          /\ stderr_errors' = IF opened \/ again THEN stderr_errors
                              ELSE Append(stderr_errors, cannot_open)
          /\ file' = IF opened \/ again
                     THEN csv_metadata(variant, clock) \o <<csv_header>> \o csv_rows
                     ELSE file

\* write_csv, run in context ctx ("callback", "signal" or "main"): one fopen;
\* when it fails the error line is printed and the function returns, else the
\* file is written anew
write_csv(ctx) ==
    /\ flush_log' = Append(flush_log, ctx)
    /\ \E opened \in BOOLEAN :
          /\ fopen_log' = Append(fopen_log, opened)
          /\ stderr_errors' = IF opened THEN stderr_errors
                              ELSE Append(stderr_errors, cannot_open)
          /\ file' = IF opened
                     THEN csv_metadata(variant, clock) \o <<csv_header>> \o csv_rows
                     ELSE file

write_count == Len(flush_log)

(***************************************************************************)
(* Raw inputs                                                              *)
(***************************************************************************)
\* the modifier keys physically held while a raw event is delivered
HeldSets == {{}, {"shift", "meta"}}

ScanCodeOf(vk) ==
    IF vk = VK_A THEN 30 ELSE IF vk = VK_ESCAPE THEN 1
    ELSE IF vk = VK_OEM_COMMA THEN 51 ELSE 0

\* bits 0..30 of the lParam of a keystroke message: repeat count 1, scan code in
\* bits 16..23, previous key state in bit 30 (bit 31, the transition state, is
\* not read by the program)
LParam(sc, prev) == 1 + sc * 65536 + prev * 1073741824

\* the messages other threads and the system post to the window of gui_windows
PostedMessages ==
    { [msg |-> "WM_KEYDOWN", wParam |-> VK_A, lParam |-> LParam(ScanCodeOf(VK_A), 0)],
      [msg |-> "WM_KEYDOWN", wParam |-> VK_A, lParam |-> LParam(ScanCodeOf(VK_A), 1)],
      [msg |-> "WM_KEYDOWN", wParam |-> VK_ESCAPE, lParam |-> LParam(ScanCodeOf(VK_ESCAPE), 0)],
      [msg |-> "WM_KEYUP", wParam |-> VK_A, lParam |-> LParam(ScanCodeOf(VK_A), 1)],
      [msg |-> "WM_CLOSE", wParam |-> 0, lParam |-> 0] }

\* the key codes a flags-changed notification carries in the model: two modifier
\* keys and one code beyond the tracking table
ToggleKeycodes == {kVK_Shift, kVK_Command, keycode_untracked}

\* a message posted to the main thread of terminal_windows, which owns no window
ThreadMessage == [msg |-> "WM_NULL", wParam |-> 0, lParam |-> 0]

(***************************************************************************)
(* main / WinMain up to the capture loop                                   *)
(***************************************************************************)
\* gui_macos.m has no failing registration; the others return 1 when the
\* window, hook or event tap cannot be created
can_fail_to_register(v) == v # "gui_macos"

\* "Error: Failed to create window / set keyboard hook / create event tap"
register_failed == "Error: Failed to register"

\* main that goes through its flush on the failure path too before it returns 1
main_start_flushing_on_failure ==
    /\ pc = "start"
    /\ \E registered \in BOOLEAN :
          /\ registered \/ can_fail_to_register(variant)
          /\ origin' = clock
          /\ IF registered
             THEN /\ pc' = "loop"
                  /\ window' = IF variant \in GuiVariants THEN "open" ELSE "none"
                  /\ exit_code' = exit_code
                  /\ UNCHANGED <<flush_log, file, fopen_log, stderr_errors>>
             ELSE /\ pc' = "exited"
                  /\ window' = window
                  /\ exit_code' = 1
                  /\ stderr_errors' = Append(stderr_errors, register_failed)
                  /\ flush_log' = Append(flush_log, "main")
                  /\ fopen_log' = Append(fopen_log, TRUE)
                  /\ file' = csv_metadata(variant, clock) \o <<csv_header>> \o csv_rows
    /\ UNCHANGED <<variant, events, event_count, modifier_key_down, running, queue,
                   quit_posted, handler_quit, clock, stops, last_outcome, accepted_raw, mod_in, mod_out, key_in, key_out>>

\* the clock origin is read, the capture source is registered, and main enters
\* its loop or returns 1
main_start ==
    /\ pc = "start"
    /\ \E registered \in BOOLEAN :
          /\ registered \/ can_fail_to_register(variant)
          /\ origin' = clock
          /\ IF registered
             THEN /\ pc' = "loop"
                  /\ window' = IF variant \in GuiVariants THEN "open" ELSE "none"
                  /\ exit_code' = exit_code
                  /\ stderr_errors' = stderr_errors
             ELSE /\ pc' = "exited"
                  /\ window' = window
                  /\ exit_code' = 1
                  /\ stderr_errors' = Append(stderr_errors, register_failed)
    /\ UNCHANGED <<variant, events, event_count, modifier_key_down, running, queue,
                   quit_posted, handler_quit, clock, flush_log, file, fopen_log, stops,
                   last_outcome, accepted_raw, mod_in, mod_out, key_in, key_out>>

(***************************************************************************)
(* gui_windows.c                                                           *)
(***************************************************************************)
\* another thread or the system posts a message to the window
gw_post ==
    /\ variant = "gui_windows"
    /\ pc = "loop"
    /\ window = "open"
    /\ Len(queue) < MaxQueue
    /\ Len(flush_log) < MaxWrites
    /\ \E m \in PostedMessages : queue' = Append(queue, m)
    /\ UNCHANGED <<variant, pc, events, event_count, modifier_key_down, running,
                   quit_posted, handler_quit, window, clock, origin, flush_log, file, fopen_log, stderr_errors,
                   exit_code, stops, last_outcome, accepted_raw, mod_in, mod_out, key_in, key_out>>

\* the modifier keys GetKeyState reports down in gui_windows: the key state of the
\* thread, which only retrieved keyboard messages of those keys change; none is
\* among PostedMessages, so it stays what it was when the session began, here
\* with Shift and the Windows key held
ThreadKeyState == {"shift", "meta"}

\* record_key_event with bit 30 of lParam read for every kind of event
record_key_event_repeat_any_kind(vk, lParam, event_type_str) ==
    IF buffer_full THEN skip_event("dropped")
    ELSE \E now \in Readings :
            LET held == ThreadKeyState
                scancode == (lParam \div 65536) % 256
                is_repeat == (lParam \div 1073741824) % 2
            IN  /\ clock' = now
                /\ accepted_raw' = RawEvent(event_type_str, (lParam \div 1073741824) % 2 = 1)
                /\ store_event(KeyEvent(next_seq, qpc_to_ms(now, origin),
                                        event_time(variant, clock), event_type_str, vk, scancode,
                                        Truncate(vk_to_char(variant, vk), 16),
                                        build_modifier_string(variant, held), is_repeat))
                /\ UNCHANGED modifier_key_down

\* record_key_event(vk, lParam, event_type_str)
record_key_event(vk, lParam, event_type_str) ==
    IF buffer_full THEN skip_event("dropped")
    ELSE \E now \in Readings :
            LET held == ThreadKeyState
                scancode == (lParam \div 65536) % 256
                is_repeat == IF event_type_str = "key_down"
                             THEN (lParam \div 1073741824) % 2 ELSE 0
            IN  /\ clock' = now
                /\ accepted_raw' = RawEvent(event_type_str, (lParam \div 1073741824) % 2 = 1)
                /\ store_event(KeyEvent(next_seq, qpc_to_ms(now, origin),
                                        event_time(variant, clock), event_type_str, vk, scancode,
                                        Truncate(vk_to_char(variant, vk), 16),
                                        build_modifier_string(variant, held), is_repeat))
                /\ UNCHANGED modifier_key_down

\* wnd_proc that takes Escape as the stop key only in a WM_SYSKEYDOWN message
wnd_proc_keydown_escape_on_syskey_only(m) ==
    /\ m.msg = "WM_KEYDOWN"
    /\ IF m.wParam = VK_ESCAPE /\ m.msg = "WM_SYSKEYDOWN"
       THEN /\ write_csv("callback")
            /\ quit_posted' = TRUE
            /\ stop_handled("stop_key")
            /\ UNCHANGED <<events, event_count, modifier_key_down, clock, last_outcome, accepted_raw>>
       ELSE /\ record_key_event(m.wParam, m.lParam, "key_down")
            /\ UNCHANGED <<quit_posted, stops, flush_log, file, fopen_log, stderr_errors>>
    /\ queue' = Tail(queue)
    /\ UNCHANGED window

\* wnd_proc, case WM_KEYDOWN / WM_SYSKEYDOWN
wnd_proc_keydown(m) ==
    /\ m.msg = "WM_KEYDOWN"
    /\ IF m.wParam = VK_ESCAPE
       THEN /\ write_csv("callback")
            /\ quit_posted' = TRUE
            /\ stop_handled("stop_key")
            /\ UNCHANGED <<events, event_count, modifier_key_down, clock, last_outcome, accepted_raw>>
       ELSE /\ record_key_event(m.wParam, m.lParam, "key_down")
            /\ UNCHANGED <<quit_posted, stops, flush_log, file, fopen_log, stderr_errors>>
    /\ queue' = Tail(queue)
    /\ UNCHANGED window

\* wnd_proc, case WM_KEYUP / WM_SYSKEYUP
wnd_proc_keyup(m) ==
    /\ m.msg = "WM_KEYUP"
    /\ record_key_event(m.wParam, m.lParam, "key_up")
    /\ queue' = Tail(queue)
    /\ UNCHANGED <<quit_posted, stops, flush_log, file, fopen_log, stderr_errors, window>>

\* WM_CLOSE goes to DefWindowProc, which destroys the window; DestroyWindow
\* sends WM_DESTROY before it returns (wnd_proc, case WM_DESTROY) and the
\* messages still queued for the window are discarded
wnd_proc_close(m) ==
    /\ m.msg = "WM_CLOSE"
    /\ write_csv("callback")
    /\ quit_posted' = TRUE
    /\ stop_handled("window_close")
    /\ window' = "destroyed"
    /\ queue' = << >>
    /\ UNCHANGED <<events, event_count, modifier_key_down, clock, last_outcome, accepted_raw>>

\* a message loop that reads qpc_start again on every turn
gw_dispatch_restarting_clock ==
    /\ variant = "gui_windows"
    /\ pc = "loop"
    /\ queue # << >>
    /\ \/ wnd_proc_keydown(Head(queue))
       \/ wnd_proc_keyup(Head(queue))
       \/ wnd_proc_close(Head(queue))
    /\ origin' = clock
    /\ UNCHANGED <<variant, pc, running, handler_quit, exit_code, mod_in, mod_out, key_in, key_out>>

\* one turn of the message loop of WinMain: GetMessage returns the oldest posted
\* message and DispatchMessage calls wnd_proc with it
gw_dispatch ==
    /\ variant = "gui_windows"
    /\ pc = "loop"
    /\ queue # << >>
    /\ \/ wnd_proc_keydown(Head(queue))
       \/ wnd_proc_keyup(Head(queue))
       \/ wnd_proc_close(Head(queue))
    /\ UNCHANGED <<variant, pc, running, handler_quit, origin, exit_code, mod_in, mod_out, key_in, key_out>>

\* GetMessage reports WM_QUIT once no posted message is left: the loop ends and
\* WinMain returns 0
gw_quit ==
    /\ variant = "gui_windows"
    /\ pc = "loop"
    /\ queue = << >>
    /\ quit_posted
    /\ pc' = "exited"
    /\ exit_code' = 0
    /\ UNCHANGED <<variant, events, event_count, modifier_key_down, running, queue,
                   quit_posted, handler_quit, window, clock, origin, flush_log, file, fopen_log, stderr_errors,
                   stops, last_outcome, accepted_raw, mod_in, mod_out, key_in, key_out>>

(***************************************************************************)
(* gui_macos.m                                                             *)
(***************************************************************************)
\* record_event that also marks the key in the toggle table on key_down
record_event_marking_key(keycode, flags, is_repeat, event_type_str) ==
    IF buffer_full THEN skip_event("dropped")
    ELSE \E now \in Readings :
            /\ clock' = now
            /\ accepted_raw' = RawEvent(event_type_str, is_repeat)
            /\ store_event(KeyEvent(next_seq, abs_to_ms(now - origin), event_time(variant, clock),
                                    event_type_str, keycode, 0,
                                    Truncate(keycode_to_char(variant, keycode), 8),
                                    build_modifier_string(variant, flags),
                                    IF is_repeat THEN 1 ELSE 0))
            /\ modifier_key_down' = IF event_type_str = "key_down"
                                    THEN modifier_key_down \cup {keycode}
                                    ELSE modifier_key_down

\* record_event(nsEvent, event_type_str)
record_event(keycode, flags, is_repeat, event_type_str) ==
    IF buffer_full THEN skip_event("dropped")
    ELSE \E now \in Readings :
            /\ clock' = now
            /\ accepted_raw' = RawEvent(event_type_str, is_repeat)
            /\ store_event(KeyEvent(next_seq, abs_to_ms(now - origin), event_time(variant, clock),
                                    event_type_str, keycode, 0,
                                    Truncate(keycode_to_char(variant, keycode), 8),
                                    build_modifier_string(variant, flags),
                                    IF is_repeat THEN 1 ELSE 0))
            /\ UNCHANGED modifier_key_down

\* record_flags_changed with the tracker flipped before the capacity check
record_flags_changed_flip_first(keycode, flags) ==
    LET was_down == keycode < 256 /\ keycode \in modifier_key_down
        event_type_str == IF was_down THEN "key_up" ELSE "key_down"
        flipped == IF was_down THEN modifier_key_down \ {keycode}
                   ELSE IF keycode < 256 THEN modifier_key_down \cup {keycode}
                   ELSE modifier_key_down
    IN  IF buffer_full
        THEN /\ last_outcome' = "dropped_toggle"
             /\ modifier_key_down' = flipped
             /\ UNCHANGED <<events, event_count, clock, accepted_raw>>
        ELSE \E now \in Readings :
                /\ clock' = now
                /\ accepted_raw' = RawEvent("toggle", FALSE)
                /\ modifier_key_down' = flipped
                /\ store_event(KeyEvent(next_seq, abs_to_ms(now - origin),
                                        event_time(variant, clock), event_type_str, keycode, 0,
                                        Truncate(keycode_to_char(variant, keycode), 8),
                                        build_modifier_string(variant, flags), 0))

\* record_flags_changed(nsEvent); modifier_key_down holds the indices whose entry is 1
record_flags_changed(keycode, flags) ==
    IF buffer_full THEN skip_event("dropped_toggle")
    ELSE \E now \in Readings :
            LET was_down == keycode < 256 /\ keycode \in modifier_key_down
                event_type_str == IF was_down THEN "key_up" ELSE "key_down"
            IN  /\ clock' = now
                /\ accepted_raw' = RawEvent("toggle", FALSE)
                /\ modifier_key_down' =
                      IF was_down THEN modifier_key_down \ {keycode}
                      ELSE IF keycode < 256 THEN modifier_key_down \cup {keycode}
                      ELSE modifier_key_down
                /\ store_event(KeyEvent(next_seq, abs_to_ms(now - origin),
                                        event_time(variant, clock), event_type_str, keycode, 0,
                                        Truncate(keycode_to_char(variant, keycode), 8),
                                        build_modifier_string(variant, flags), 0))

gm_frame == UNCHANGED <<variant, running, queue, quit_posted, handler_quit, window,
                        origin, mod_in, mod_out, key_in, key_out>>

\* TimingWindow keyDown:, up to the return of write_csv when the key is Escape
gm_keyDown ==
    /\ variant = "gui_macos"
    /\ pc = "loop"
    /\ window = "open"
    /\ \E keycode \in {kVK_ANSI_A, kVK_Escape}, flags \in HeldSets, is_repeat \in BOOLEAN :
          IF keycode = kVK_Escape
          THEN /\ write_csv("callback")
               /\ pc' = "terminating"
               /\ stop_handled("stop_key")
               /\ UNCHANGED <<events, event_count, modifier_key_down, clock,
                              last_outcome, accepted_raw, exit_code>>
          ELSE /\ record_event(keycode, flags, is_repeat, "key_down")
               /\ UNCHANGED <<pc, stops, flush_log, file, fopen_log, stderr_errors, exit_code>>
    /\ gm_frame

\* "[NSApp terminate:nil]" of keyDown: the application exits with status 0
gm_terminate ==
    /\ variant = "gui_macos"
    /\ pc = "terminating"
    /\ pc' = "exited"
    /\ exit_code' = 0
    /\ UNCHANGED <<events, event_count, modifier_key_down, clock, last_outcome, accepted_raw,
                   stops, flush_log, file, fopen_log, stderr_errors>>
    /\ gm_frame

\* TimingWindow keyUp:
gm_keyUp ==
    /\ variant = "gui_macos"
    /\ pc = "loop"
    /\ window = "open"
    /\ \E keycode \in {kVK_ANSI_A}, flags \in HeldSets :
          record_event(keycode, flags, FALSE, "key_up")
    /\ UNCHANGED <<pc, stops, flush_log, file, fopen_log, stderr_errors, exit_code>>
    /\ gm_frame

\* TimingWindow flagsChanged:
gm_flagsChanged ==
    /\ variant = "gui_macos"
    /\ pc = "loop"
    /\ window = "open"
    /\ \E keycode \in ToggleKeycodes, flags \in HeldSets :
          record_flags_changed(keycode, flags)
    /\ UNCHANGED <<pc, stops, flush_log, file, fopen_log, stderr_errors, exit_code>>
    /\ gm_frame

\* the operator closes the window: TimingWindow overrides nothing for it and the
\* application has no delegate, so the window goes away and the run loop goes on
gm_windowClose ==
    /\ variant = "gui_macos"
    /\ pc = "loop"
    /\ window = "open"
    /\ window' = "closed"
    /\ stop_handled("window_close")
    /\ UNCHANGED <<variant, pc, events, event_count, modifier_key_down, running, queue,
                   quit_posted, handler_quit, clock, origin, flush_log, file, fopen_log, stderr_errors, exit_code,
                   last_outcome, accepted_raw, mod_in, mod_out, key_in, key_out>>

\* signal_handler (SIGINT, SIGTERM): write_csv(); _exit(0); it interrupts the main
\* thread wherever it is, also between write_csv and the exit of keyDown
gm_signal_handler ==
    /\ variant = "gui_macos"
    /\ pc \in {"loop", "terminating"}
    /\ write_csv("signal")
    /\ pc' = "exited"
    /\ exit_code' = 0
    /\ stop_handled("interrupt")
    /\ UNCHANGED <<events, event_count, modifier_key_down, clock, last_outcome, accepted_raw>>
    /\ gm_frame

(***************************************************************************)
(* terminal_windows.c                                                      *)
(***************************************************************************)
tw_frame == UNCHANGED <<variant, window, origin, quit_posted, mod_in, mod_out, key_in, key_out>>

\* "is_repeat = (kb->flags & LLKHF_UP) ? 0 : 1;": the flag test with a live branch
hook_is_repeat_from_flags(wParam, llflags) ==
    IF wParam = "WM_KEYDOWN"
    THEN (IF (llflags \div 128) % 2 = 1 THEN 0 ELSE 1)
    ELSE 0

\* "int is_repeat = 0;" and, for a key-down, "is_repeat = (kb->flags & LLKHF_UP) ? 0 : 0;"
hook_is_repeat(wParam, llflags) ==
    IF wParam = "WM_KEYDOWN"
    THEN (IF (llflags \div 128) % 2 = 1 THEN 0 ELSE 0)
    ELSE 0

\* keyboard_hook(nCode, wParam, lParam): the system calls it while main waits in
\* GetMessage, which does not return for it
keyboard_hook ==
    /\ variant = "terminal_windows"
    /\ pc = "loop"
    /\ \E nCode \in {-1, 0}, wParam \in {"WM_KEYDOWN", "WM_KEYUP", "WM_NULL"},
          vkCode \in {VK_A, VK_OEM_COMMA}, llflags \in {0, 128} :
          IF nCode < 0 \/ buffer_full
          THEN skip_event(IF nCode < 0 THEN "ignored" ELSE "dropped")
          ELSE IF wParam \notin {"WM_KEYDOWN", "WM_KEYUP"}
          THEN skip_event("ignored")
          ELSE \E now \in Readings, held \in HeldSets :
                  LET event_type_str == IF wParam = "WM_KEYDOWN" THEN "key_down"
                                        ELSE "key_up"
                      is_repeat == hook_is_repeat(wParam, llflags)
                  IN  /\ clock' = now
                      /\ accepted_raw' = RawEvent(event_type_str, FALSE)
                      /\ store_event(KeyEvent(next_seq, qpc_to_ms(now, origin),
                                              event_time(variant, clock), event_type_str, vkCode,
                                              ScanCodeOf(vkCode),
                                              Truncate(vk_to_char(variant, vkCode), 16),
                                              build_modifier_string(variant, held),
                                              is_repeat))
                      /\ UNCHANGED modifier_key_down
    /\ UNCHANGED <<pc, running, queue, handler_quit, flush_log, file, fopen_log, stderr_errors, exit_code, stops>>
    /\ tw_frame

\* console_handler(type) for CTRL_C_EVENT and CTRL_CLOSE_EVENT.  The system runs
\* it on a thread of its own, so GetCurrentThreadId() names that thread and the
\* WM_QUIT is posted to the handler thread's queue, not to the queue main reads
console_handler ==
    /\ variant = "terminal_windows"
    /\ pc \in {"loop", "unwound"}
    /\ running' = 0
    /\ handler_quit' = TRUE
    /\ stop_handled("interrupt")
    /\ UNCHANGED <<pc, events, event_count, modifier_key_down, queue, clock,
                   flush_log, file, fopen_log, stderr_errors, exit_code, last_outcome, accepted_raw>>
    /\ tw_frame

\* some other thread posts a message to the main thread
tw_post ==
    /\ variant = "terminal_windows"
    /\ pc = "loop"
    /\ Len(queue) < MaxQueue
    /\ queue' = Append(queue, ThreadMessage)
    /\ UNCHANGED <<pc, events, event_count, modifier_key_down, running, handler_quit,
                   clock, flush_log, file, fopen_log, stderr_errors, exit_code, stops, last_outcome, accepted_raw>>
    /\ tw_frame

\* "while (running && GetMessage(&msg, NULL, 0, 0)) { Translate; Dispatch; }":
\* GetMessage returns a posted message, it is dispatched to no window, and the
\* loop condition is evaluated again
tw_GetMessage ==
    /\ variant = "terminal_windows"
    /\ pc = "loop"
    /\ queue # << >>
    /\ queue' = Tail(queue)
    /\ pc' = IF running = 0 THEN "unwound" ELSE "loop"
    /\ UNCHANGED <<events, event_count, modifier_key_down, running, handler_quit,
                   clock, flush_log, file, fopen_log, stderr_errors, exit_code, stops, last_outcome, accepted_raw>>
    /\ tw_frame

\* "UnhookWindowsHookEx(hook); write_csv(output_path); return 0;"
tw_flush ==
    /\ variant = "terminal_windows"
    /\ pc = "unwound"
    /\ write_csv("main")
    /\ pc' = "exited"
    /\ exit_code' = 0
    /\ UNCHANGED <<events, event_count, modifier_key_down, running, queue, handler_quit,
                   clock, stops, last_outcome, accepted_raw>>
    /\ tw_frame

(***************************************************************************)
(* terminal_macos.c                                                        *)
(***************************************************************************)
tm_frame == UNCHANGED <<variant, window, origin, queue, quit_posted, handler_quit,
                        mod_in, mod_out, key_in, key_out>>

\* the raw events the tap delivers: <<type, keycode, autorepeat>>
TapEvents ==
    { <<"kCGEventKeyDown", kVK_ANSI_A, 0>>, <<"kCGEventKeyDown", kVK_ANSI_A, 1>>,
      <<"kCGEventKeyUp", kVK_ANSI_A, 0>>,
      <<"kCGEventFlagsChanged", kVK_Shift, 0>>, <<"kCGEventFlagsChanged", kVK_Command, 0>>,
      <<"kCGEventFlagsChanged", keycode_untracked, 0>>,
      <<"kCGEventTapDisabledByTimeout", 0, 0>> }

\* event_callback(proxy, type, event, refcon)
event_callback ==
    /\ variant = "terminal_macos"
    /\ pc = "loop"
    /\ \E ev \in TapEvents, flags \in HeldSets :
          LET type == ev[1]
              keycode == ev[2]
              autorepeat == ev[3]
              in_table == keycode >= 0 /\ keycode < 256
              was_down == in_table /\ keycode \in modifier_key_down
              event_type_str ==
                  CASE type = "kCGEventKeyDown" -> "key_down"
                    [] type = "kCGEventKeyUp" -> "key_up"
                    [] OTHER -> IF ~in_table THEN "flags_changed"
                                ELSE IF was_down THEN "key_up" ELSE "key_down"
          IN  IF buffer_full
              THEN skip_event(IF type = "kCGEventFlagsChanged" THEN "dropped_toggle"
                              ELSE "dropped")
              ELSE IF type \notin {"kCGEventKeyDown", "kCGEventKeyUp", "kCGEventFlagsChanged"}
              THEN skip_event("ignored")
              ELSE \E now \in Readings :
                      /\ clock' = now
                      /\ accepted_raw' =
                            RawEvent(IF type = "kCGEventFlagsChanged" THEN "toggle"
                                     ELSE event_type_str, autorepeat # 0)
                      /\ modifier_key_down' =
                            IF type = "kCGEventFlagsChanged" /\ in_table
                            THEN IF was_down THEN modifier_key_down \ {keycode}
                                 ELSE modifier_key_down \cup {keycode}
                            ELSE modifier_key_down
                      /\ store_event(KeyEvent(next_seq, abs_to_ms(now - origin),
                                              event_time(variant, clock), event_type_str, keycode, 0,
                                              Truncate(keycode_to_char(variant, keycode), 8),
                                              build_modifier_string(variant, flags),
                                              autorepeat))
    /\ UNCHANGED <<pc, running, flush_log, file, fopen_log, stderr_errors, exit_code, stops>>
    /\ tm_frame

\* signal_handler (SIGINT, SIGTERM): "running = 0; CFRunLoopStop(CFRunLoopGetMain());"
tm_signal_handler ==
    /\ variant = "terminal_macos"
    /\ pc \in {"loop", "unwound"}
    /\ running' = 0
    /\ stop_handled("interrupt")
    /\ UNCHANGED <<pc, events, event_count, modifier_key_down, clock, flush_log, file, fopen_log, stderr_errors,
                   exit_code, last_outcome, accepted_raw>>
    /\ tm_frame

\* "while (running) CFRunLoopRunInMode(kCFRunLoopDefaultMode, 1.0, true);":
\* the run returns when stopped, after a source was handled or after one second,
\* and the loop ends once running is 0
tm_loop_exit ==
    /\ variant = "terminal_macos"
    /\ pc = "loop"
    /\ running = 0
    /\ pc' = "unwound"
    /\ UNCHANGED <<events, event_count, modifier_key_down, running, clock, flush_log,
                   file, fopen_log, stderr_errors, exit_code, stops, last_outcome, accepted_raw>>
    /\ tm_frame

\* "write_csv(output_path); CFRelease(source); CFRelease(tap); return 0;"
tm_flush ==
    /\ variant = "terminal_macos"
    /\ pc = "unwound"
    /\ write_csv("main")
    /\ pc' = "exited"
    /\ exit_code' = 0
    /\ UNCHANGED <<events, event_count, modifier_key_down, running, clock, stops,
                   last_outcome, accepted_raw>>
    /\ tm_frame

(***************************************************************************)
(* Specifications                                                          *)
(***************************************************************************)
InitState(v) ==
    /\ variant = v
    /\ pc = "start"
    /\ events = << >>
    /\ event_count = 0
    /\ modifier_key_down = {}
    /\ running = 1
    /\ queue = << >>
    /\ quit_posted = FALSE
    /\ handler_quit = FALSE
    /\ window = "none"
    /\ clock = BootTicks(v)
    /\ origin = 0
    /\ flush_log = << >>
    /\ file = << >>
    /\ fopen_log = << >>
    /\ stderr_errors = << >>
    /\ exit_code = -1
    /\ stops = {}
    /\ last_outcome = "none"
    /\ accepted_raw = NoRaw
    /\ mod_in = {}
    /\ mod_out = ""
    /\ key_in = 0
    /\ key_out = ""

Init == \E v \in Variants : InitState(v)

Next ==
    \/ main_start
    \/ gw_post
    \/ gw_dispatch
    \/ gw_quit
    \/ gm_keyDown
    \/ gm_terminate
    \/ gm_keyUp
    \/ gm_flagsChanged
    \/ gm_windowClose
    \/ gm_signal_handler
    \/ keyboard_hook
    \/ console_handler
    \/ tw_post
    \/ tw_GetMessage
    \/ tw_flush
    \/ event_callback
    \/ tm_signal_handler
    \/ tm_loop_exit
    \/ tm_flush

Spec == Init /\ [][Next]_vars

\* the pure function build_modifier_string applied to every variant and every
\* combination of held modifiers
InitModifiers ==
    \E v \in Variants, held \in SUBSET Modifiers :
        /\ variant = v
        /\ pc = "modifiers"
        /\ mod_in = held
        /\ mod_out = ""
        /\ events = << >>
        /\ event_count = 0
        /\ modifier_key_down = {}
        /\ running = 1
        /\ queue = << >>
        /\ quit_posted = FALSE
        /\ handler_quit = FALSE
        /\ window = "none"
        /\ clock = 0
        /\ origin = 0
        /\ flush_log = << >>
        /\ file = << >>
        /\ fopen_log = << >>
        /\ stderr_errors = << >>
        /\ exit_code = -1
        /\ stops = {}
        /\ last_outcome = "none"
        /\ accepted_raw = NoRaw
        /\ key_in = 0
        /\ key_out = ""

apply_build_modifier_string ==
    /\ pc = "modifiers"
    /\ mod_out' = build_modifier_string(variant, mod_in)
    /\ pc' = "modifiers_done"
    /\ UNCHANGED <<variant, events, event_count, modifier_key_down, running, queue,
                   quit_posted, handler_quit, window, clock, origin, flush_log, file, fopen_log, stderr_errors,
                   exit_code, stops, last_outcome, accepted_raw, mod_in, key_in, key_out>>

NextModifiers == apply_build_modifier_string

SpecModifiers == InitModifiers /\ [][NextModifiers]_vars

\* the raw key identifiers the key-name specification resolves.  Windows: the
\* virtual keys whose ToUnicode result the model states (control keys, space,
\* navigation keys, digits, letters, Windows keys, F1, the left/right modifier
\* keys, comma); macOS: every key code of the tables and beyond, up to the
\* largest CGKeyCode
KeyIds(v) ==
    IF v \in WindowsVariants
    THEN {8, 9, 13, 20, 27, 32} \cup (33..40) \cup {45, 46} \cup (48..57)
         \cup (65..90) \cup {91, 92, 112} \cup (160..165) \cup {188}
    ELSE (0..130) \cup {255, 256, keycode_untracked, 65535}

\* the pure functions vk_to_char / keycode_to_char applied to every variant and
\* every key identifier of KeyIds
InitKeyNames ==
    \E v \in Variants : \E k \in KeyIds(v) :
        /\ variant = v
        /\ pc = "keyname"
        /\ key_in = k
        /\ key_out = ""
        /\ mod_in = {}
        /\ mod_out = ""
        /\ events = << >>
        /\ event_count = 0
        /\ modifier_key_down = {}
        /\ running = 1
        /\ queue = << >>
        /\ quit_posted = FALSE
        /\ handler_quit = FALSE
        /\ window = "none"
        /\ clock = 0
        /\ origin = 0
        /\ flush_log = << >>
        /\ file = << >>
        /\ fopen_log = << >>
        /\ stderr_errors = << >>
        /\ exit_code = -1
        /\ stops = {}
        /\ last_outcome = "none"
        /\ accepted_raw = NoRaw

apply_key_name ==
    /\ pc = "keyname"
    /\ key_out' = IF variant \in WindowsVariants THEN vk_to_char(variant, key_in)
                  ELSE keycode_to_char(variant, key_in)
    /\ pc' = "keyname_done"
    /\ UNCHANGED <<variant, events, event_count, modifier_key_down, running, queue,
                   quit_posted, handler_quit, window, clock, origin, flush_log, file,
                   fopen_log, stderr_errors, exit_code, stops, last_outcome, accepted_raw, mod_in,
                   mod_out, key_in>>

NextKeyNames == apply_key_name

SpecKeyNames == InitKeyNames /\ [][NextKeyNames]_vars

\* the two terminal programs, with the steps of main taken whenever they stay
\* possible; nothing obliges the operator or other threads to act
InitTerminal == \E v \in TerminalVariants : InitState(v)

NextTerminal ==
    \/ main_start
    \/ keyboard_hook
    \/ console_handler
    \/ tw_post
    \/ tw_GetMessage
    \/ tw_flush
    \/ event_callback
    \/ tm_signal_handler
    \/ tm_loop_exit
    \/ tm_flush

FairTerminal ==
    /\ WF_vars(main_start)
    /\ WF_vars(tw_GetMessage)
    /\ WF_vars(tw_flush)
    /\ WF_vars(tm_loop_exit)
    /\ WF_vars(tm_flush)

SpecTerminalFair == InitTerminal /\ [][NextTerminal]_vars /\ FairTerminal

\* all four programs, with the steps of the main thread taken whenever they
\* stay possible: the terminal loops and flushes, the message loop of gui_windows
\* and the termination gui_macos has asked for
FairGui ==
    /\ WF_vars(gw_dispatch)
    /\ WF_vars(gw_quit)
    /\ WF_vars(gm_terminate)

SpecFair == Init /\ [][Next]_vars /\ FairTerminal /\ FairGui

(***************************************************************************)
(* Properties                                                              *)
(***************************************************************************)
\* the session accepts raw events: main is in its loop, no stop was requested
\* and, in a windowed variant, the window is there to receive keys
Capturing ==
    /\ pc = "loop"
    /\ running = 1
    /\ ~quit_posted
    /\ variant \in GuiVariants => window = "open"

\* C1: write_csv is executed exactly once per session that leaves Capturing:
\* never a second time, and a process that ends with exit code 0 has run it.
C1_FlushExactlyOnce ==
    /\ write_count <= 1
    /\ (pc = "exited" /\ exit_code = 0) => write_count = 1

\* C2: for every stop trigger in every variant, write_csv runs only after the
\* capture loop has returned control, never inside an event callback or handler.
C2_FlushAfterLoopExit ==
    \A i \in 1..Len(flush_log) : flush_log[i] = "main"

\* C3: an interrupt handler never calls write_csv (and so never reads events or
\* event_count); it only requests loop termination, and the flush of an
\* interrupted session runs later on the capture loop's thread.
C3_HandlerOnlyRequestsStop ==
    /\ \A i \in 1..Len(flush_log) : flush_log[i] # "signal"
    /\ ("interrupt" \in stops /\ pc = "exited") => flush_log = <<"main">>

\* C4: once write_csv has run, no later step changes event_count, events[] or
\* the modifier tracker.
C4_NoMutationAfterFlush ==
    [][write_count >= 1 => UNCHANGED <<events, event_count, modifier_key_down>>]_vars

\* C5: in the terminal variants an interrupt delivered while capturing leads,
\* without further input, to the loop exiting, write_csv running and exit code 0.
C5_InterruptLeadsToFlushedExit ==
    (variant \in TerminalVariants /\ "interrupt" \in stops)
        ~> (pc = "exited" /\ exit_code = 0 /\ write_count = 1)

\* C6: in both windowed variants the stop key and the window-close notification
\* each move the session out of Capturing and get write_csv run with the
\* records accepted so far.
C6_OperatorStopsFlush ==
    (variant \in GuiVariants /\ stops \cap {"stop_key", "window_close"} # {})
        => /\ ~Capturing
           /\ write_count >= 1
           /\ file # << >> =>
                 \A i \in 1..(Len(file) - 6) :
                     i <= event_count /\ file[6 + i] = csv_row(events[i])

\* C7: in every reachable state the accepted records carry seq 1, 2, 3, ... in
\* order: the record at (0-based) index i has seq i + 1, with no gap or duplicate.
C7_SeqGapless ==
    /\ event_count = Len(events)
    /\ \A i \in 1..event_count : events[i].seq = i

C7_Witness ==
    /\ event_count >= 2
    /\ events[1].seq = 1
    /\ events[2].seq = 2
    /\ last_outcome = "ignored"

\* C8: event_count never exceeds MAX_EVENTS; no step changes an accepted record,
\* and once the buffer is full every further event leaves it as it is.
C8_CapacityNeverExceeded ==
    /\ [](event_count <= MAX_EVENTS /\ Len(events) <= MAX_EVENTS)
    /\ [][/\ \A i \in 1..event_count : i <= Len(events') /\ events'[i] = events[i]
          /\ event_count = MAX_EVENTS => UNCHANGED <<events, event_count>>]_vars

C8_Witness ==
    /\ event_count = MAX_EVENTS
    /\ last_outcome = "dropped"
    /\ \A i \in 1..MAX_EVENTS : events[i].seq = i

\* C9: with a clock that never goes back, capture timestamps are non-decreasing
\* in acceptance order.
C9_TimestampsNonDecreasing ==
    \A i \in 1..event_count : \A j \in 1..event_count :
        i < j => events[i].timestamp_ms <= events[j].timestamp_ms

C9_Witness ==
    /\ event_count >= 2
    /\ events[1].timestamp_ms < events[2].timestamp_ms

\* the platform's name of the meta modifier
MetaName(v) == IF v \in MacVariants THEN "cmd" ELSE "win"

ModifierOrder(v) == <<<<"shift", "shift">>, <<"ctrl", "ctrl">>, <<"alt", "alt">>,
                      <<"meta", MetaName(v)>>>>

RECURSIVE JoinHeld(_, _, _)
JoinHeld(order, held, acc) ==
    IF order = << >> THEN acc
    ELSE LET h == Head(order)
         IN  IF h[1] \in held
             THEN JoinHeld(Tail(order), held,
                           IF acc = "" THEN h[2] ELSE acc \o "+" \o h[2])
             ELSE JoinHeld(Tail(order), held, acc)

\* C10: for each of the 16 combinations of held modifiers build_modifier_string
\* yields a non-empty string: "none" exactly when nothing is held, else the held
\* names joined by "+" in the order shift, ctrl, alt, meta.
C10_ModifierStringCanonical ==
    pc = "modifiers_done" =>
        /\ mod_out # ""
        /\ (mod_out = "none") <=> (mod_in = {})
        /\ mod_in # {} => mod_out = JoinHeld(ModifierOrder(variant), mod_in, "")

\* s has t as a run of consecutive characters
Contains(s, t) ==
    \E i \in 1..(Len(s) - Len(t) + 1) : SubSeq(s, i, i + Len(t) - 1) = t

ModifierName(v, m) == IF m = "meta" THEN MetaName(v) ELSE m

\* C11: the modifiers string names a modifier if and only if that modifier is
\* held when the record is built, for shift, ctrl, alt and the platform's meta
\* key (cmd on macOS, win on Windows).
C11_ModifierNamedIffHeld ==
    pc = "modifiers_done" =>
        \A m \in Modifiers : Contains(mod_out, ModifierName(variant, m)) <=> (m \in mod_in)

\* the kind the toggle tracker must give the j-th record: key_down when an even
\* number of earlier records carry the same key code, key_up otherwise
AlternatingKind(j) ==
    IF Cardinality({i \in 1..(j - 1) : events[i].keycode = events[j].keycode}) % 2 = 0
    THEN "key_down" ELSE "key_up"

\* C12: for every key code a flags-changed notification can carry, the kinds
\* recorded for that key code alternate, starting with key_down, whatever is
\* recorded for other keys in between.
C12_ToggleKindsAlternate ==
    \A j \in 1..event_count :
        (variant \in MacVariants /\ events[j].keycode \in ToggleKeycodes)
            => events[j].event_type = AlternatingKind(j)

\* C13: every accepted record has event_type key_down or key_up; a raw event
\* that resolves to neither leaves no record.
C13_EventTypeDownOrUp ==
    \A i \in 1..event_count : events[i].event_type \in {"key_down", "key_up"}

\* the number of places of s that hold the character c
CountChar(s, c) == Cardinality({i \in 1..Len(s) : SubSeq(s, i, i) = c})

StartsWith(s, prefix) == Len(s) >= Len(prefix) /\ SubSeq(s, 1, Len(prefix)) = prefix

\* C14: a write of a buffer of N records puts N + 6 lines in the file: the
\* metadata lines platform, language, mode, clock_source, start_time_utc, the
\* header, and N rows of exactly 9 comma-separated fields each.
C14_CsvShape ==
    [][file' # file =>
          /\ Len(file') = event_count + 6
          /\ StartsWith(file'[1], "# platform=")
          /\ StartsWith(file'[2], "# language=")
          /\ StartsWith(file'[3], "# mode=")
          /\ StartsWith(file'[4], "# clock_source=")
          /\ StartsWith(file'[5], "# start_time_utc=")
          /\ file'[6] = csv_header
          /\ \A i \in 7..Len(file') : CountChar(file'[i], ",") = 8]_vars

\* a reader of the file: the fields of a line, split at every comma
RECURSIVE SplitFrom(_, _, _)
SplitFrom(s, i, start) ==
    IF i > Len(s) THEN <<SubSeq(s, start, Len(s))>>
    ELSE IF SubSeq(s, i, i) = ","
    THEN <<SubSeq(s, start, i - 1)>> \o SplitFrom(s, i + 1, i + 1)
    ELSE SplitFrom(s, i + 1, start)

SplitCommas(s) == SplitFrom(s, 1, 1)

Digits == "0123456789"
IsDigit(c) == \E d \in 0..9 : SubSeq(Digits, d + 1, d + 1) = c
DigitVal(c) == CHOOSE d \in 0..9 : SubSeq(Digits, d + 1, d + 1) = c

IsNat(s) == Len(s) > 0 /\ \A i \in 1..Len(s) : IsDigit(SubSeq(s, i, i))

RECURSIVE ParseNat(_)
ParseNat(s) ==
    IF Len(s) = 0 THEN 0
    ELSE ParseNat(SubSeq(s, 1, Len(s) - 1)) * 10 + DigitVal(SubSeq(s, Len(s), Len(s)))

IsInt(s) == IsNat(s) \/ (Len(s) > 1 /\ SubSeq(s, 1, 1) = "-" /\ IsNat(SubSeq(s, 2, Len(s))))
ParseInt(s) == IF SubSeq(s, 1, 1) = "-" THEN 0 - ParseNat(SubSeq(s, 2, Len(s))) ELSE ParseNat(s)

\* a number with three decimals, read back in thousandths
IsFixed3(s) ==
    /\ Len(s) >= 5
    /\ SubSeq(s, Len(s) - 3, Len(s) - 3) = "."
    /\ IsNat(SubSeq(s, 1, Len(s) - 4))
    /\ IsNat(SubSeq(s, Len(s) - 2, Len(s)))
ParseFixed3(s) ==
    ParseNat(SubSeq(s, 1, Len(s) - 4)) * 1000 + ParseNat(SubSeq(s, Len(s) - 2, Len(s)))

\* the row of e, split and read back, gives the fields of e
RoundTrips(e) ==
    LET f == SplitCommas(csv_row(e))
    IN  /\ Len(f) = 9
        /\ IsInt(f[1]) /\ ParseInt(f[1]) = e.seq
        /\ IsFixed3(f[2]) /\ ParseFixed3(f[2]) = e.timestamp_ms
        /\ IsFixed3(f[3]) /\ ParseFixed3(f[3]) = e.event_timestamp_ms
        /\ f[4] = e.event_type
        /\ IsInt(f[5]) /\ ParseInt(f[5]) = e.keycode
        /\ IsInt(f[6]) /\ ParseInt(f[6]) = e.scancode
        /\ f[7] = e.character
        /\ f[8] = e.modifiers
        /\ IsInt(f[9]) /\ ParseInt(f[9]) = e.is_repeat

\* C15: the CSV row of every accepted record, split on commas and parsed field
\* by field, gives back the record's seq, event_type, keycode, scancode,
\* character, modifiers and is_repeat, and its timestamps to three decimals.
C15_RowRoundTrips ==
    \A i \in 1..event_count : RoundTrips(events[i])

\* C16: when fopen fails at flush time, write_csv prints the error line, writes
\* nothing and creates no file, leaves event_count and the records as they are
\* and does not try again; the process that then ends has exit code 0.
C16_OpenFailureLeavesNoFile ==
    /\ [][(Len(fopen_log') > Len(fopen_log) /\ ~fopen_log'[Len(fopen_log) + 1]) =>
             /\ fopen_log' = Append(fopen_log, FALSE)
             /\ write_count' = write_count + 1
             /\ stderr_errors' = Append(stderr_errors, cannot_open)
             /\ file' = file
             /\ UNCHANGED <<events, event_count>>]_vars
    /\ []((pc = "exited" /\ fopen_log # << >> /\ ~fopen_log[Len(fopen_log)]) => exit_code = 0)

C16_Witness ==
    /\ pc = "exited"
    /\ exit_code = 0
    /\ fopen_log = <<FALSE>>
    /\ stderr_errors = <<cannot_open>>
    /\ file = << >>
    /\ event_count >= 1

\* C17: when the hook, the event tap or the window cannot be created the process
\* ends with exit code 1 straight from startup: it never captures, no record is
\* accepted, write_csv is never called and no file is produced.
C17_RegistrationFailureExits1 ==
    /\ [](register_failed \in {stderr_errors[i] : i \in 1..Len(stderr_errors)} =>
             /\ pc = "exited"
             /\ exit_code = 1
             /\ event_count = 0 /\ events = << >>
             /\ write_count = 0 /\ fopen_log = << >>
             /\ file = << >>)
    /\ [][exit_code' = 1 => (pc = "start" \/ exit_code = 1)]_vars

C17_Witness ==
    /\ variant = "terminal_windows"
    /\ stderr_errors = <<register_failed>>
    /\ pc = "exited"
    /\ exit_code = 1

\* the tokens of the static tables of named keys
NamedKeyTokens ==
    {"return", "tab", "space", "backspace", "escape", "shift_l", "shift_r", "ctrl_l",
     "ctrl_r", "alt_l", "alt_r", "win_l", "win_r", "capslock", "delete", "insert",
     "home", "end", "pageup", "pagedown", "left", "right", "up", "down"}

IsPrintableChar(t) == Len(t) = 1 /\ \E c \in 32..126 : t = Chr(c)

\* "0x" and the key identifier in hexadecimal, two digits at least
IsHexFallback(t, code) == t = "0x" \o Hex02(code)

\* C18: key-name resolution gives, for every raw key identifier, a non-empty
\* token: one printable ASCII character, a named-key token of the static table,
\* or the hexadecimal fallback 0x<code>.
C18_KeyNameToken ==
    pc = "keyname_done" =>
        /\ key_out # ""
        /\ \/ IsPrintableChar(key_out)
           \/ key_out \in NamedKeyTokens
           \/ IsHexFallback(key_out, key_in)

\* C19: the session metadata is fixed at process start: the start_time_utc line
\* of the file carries the time read at startup, however long the session ran
\* before the flush.
C19_StartTimeFixedAtStartup ==
    file # << >> => file[5] = "# start_time_utc=" \o ToString(origin)

\* C20: a record has is_repeat = 1 only if its raw event carried the platform's
\* already-held indication (bit 30 of lParam on a key-down in gui_windows,
\* isARepeat in gui_macos, the autorepeat field in terminal_macos); key_up
\* records of gui_windows and toggle records of gui_macos have is_repeat = 0.
C20_RepeatOnlyWhenReported ==
    event_count >= 1 =>
        LET e == events[event_count]
        IN  /\ e.is_repeat \in {0, 1}
            /\ e.is_repeat = 1 => accepted_raw.repeat
            /\ (variant = "gui_windows" /\ accepted_raw.kind = "key_up") => e.is_repeat = 0
            /\ (variant = "gui_macos" /\ accepted_raw.kind = "toggle") => e.is_repeat = 0

C20_Witness ==
    /\ variant = "gui_windows"
    /\ event_count >= 2
    /\ events[1].event_type = "key_down" /\ events[1].is_repeat = 1
    /\ events[2].event_type = "key_up" /\ events[2].is_repeat = 0
    /\ accepted_raw = RawEvent("key_up", TRUE)

\* C21: the rows a flush writes are the accepted records, all of them and in
\* acceptance order: row i is the row of events[i] for every 1 <= i <=
\* event_count; and a record carries the kind that was delivered.
C21_RowsAreTheRecords ==
    /\ [][file' # file =>
             /\ Len(file') = event_count + 6
             /\ \A i \in 1..event_count : file'[6 + i] = csv_row(events[i])]_vars
    /\ []((event_count >= 1 /\ accepted_raw.kind \in {"key_down", "key_up"})
             => events[event_count].event_type = accepted_raw.kind)

C21_Witness ==
    /\ variant = "gui_macos"
    /\ event_count = 2
    /\ events[1].event_type = "key_down" /\ events[1].character = "a" /\ events[1].seq = 1
    /\ events[2].event_type = "key_up" /\ events[2].character = "a" /\ events[2].seq = 2
    /\ Len(file) = 8
    /\ file[7] = csv_row(events[1])
    /\ file[8] = csv_row(events[2])

\* C22: on the low-level hook path (terminal_windows) every accepted record has
\* is_repeat = 0, key_down and key_up alike, whatever the hook's flags field
\* holds, also for a key-down delivered while the key is already down.
C22_HookRepeatAlwaysZero ==
    variant = "terminal_windows" => \A i \in 1..event_count : events[i].is_repeat = 0

C22_Witness ==
    /\ variant = "terminal_windows"
    /\ event_count >= 2
    /\ events[1].event_type = "key_down" /\ events[1].keycode = VK_A
    /\ events[2].event_type = "key_down" /\ events[2].keycode = VK_A
    /\ events[2].is_repeat = 0

\* a flush has run on the full buffer and, if it could open the file, wrote
\* MAX_EVENTS rows
FlushedFullBuffer ==
    /\ write_count >= 1
    /\ event_count = MAX_EVENTS
    /\ fopen_log[Len(fopen_log)] => Len(file) = MAX_EVENTS + 6

\* C23: at capacity the session keeps running and can still be stopped: a stop
\* trigger handled once event_count = MAX_EVENTS leads to a flush of exactly
\* MAX_EVENTS rows, and key events arriving at capacity change nothing.
C23_StopAtCapacityFlushes ==
    /\ ("at_capacity" \in stops) ~> FlushedFullBuffer
    /\ [][event_count = MAX_EVENTS => UNCHANGED <<events, event_count>>]_vars

\* C24: a raw event that is ignored, or dropped because the buffer is full,
\* leaves event_count, every events[] entry and the toggle table as they are; a
\* flags-changed event dropped at capacity does not flip the entry of its key.
C24_SkippedEventChangesNothing ==
    [][last_outcome' \in {"ignored", "dropped", "dropped_toggle"} =>
          UNCHANGED <<events, event_count, modifier_key_down>>]_vars

C24_Witness ==
    /\ variant = "gui_macos"
    /\ event_count = MAX_EVENTS
    /\ last_outcome = "dropped_toggle"
    /\ modifier_key_down = {kVK_Shift}

\* one step of a macOS variant, as far as modifier_key_down is concerned
ToggleTableStep ==
    variant \in MacVariants =>
          /\ modifier_key_down' # modifier_key_down =>
                /\ event_count' = event_count + 1
                /\ accepted_raw'.kind = "toggle"
                /\ (modifier_key_down' \ modifier_key_down)
                      \cup (modifier_key_down \ modifier_key_down')
                   = {events'[event_count'].keycode}
          /\ (event_count' = event_count + 1 /\ accepted_raw'.kind \in {"key_down", "key_up"})
                => modifier_key_down' = modifier_key_down

\* C25: in the macOS variants the toggle table changes only in a step that
\* accepts a toggle notification, and then only at the entry of the notified
\* key; an accepted ordinary key_down or key_up leaves the table unchanged.
C25_ToggleTableOnlyByToggles == [][ToggleTableStep]_vars

C25_Witness ==
    /\ variant \in MacVariants
    /\ event_count = 2
    /\ events[1].keycode = kVK_Shift
    /\ events[2].event_type = "key_down"
    /\ events[2].keycode = kVK_ANSI_A
    /\ accepted_raw.kind = "key_down"
    /\ modifier_key_down = {kVK_Shift}


\* C27: the clock origin (qpc_start, start_time_abs) is written only by main
\* before capture starts: a step that changes it starts from the startup
\* position with nothing recorded and nothing flushed; no callback, stop handler
\* or flush writes it. The tick ratio (qpc_freq, timebase) is a fixed value.
C27_ClockOriginSetOnce ==
    [][origin' # origin => (pc = "start" /\ event_count = 0 /\ write_count = 0)]_vars

C27_Witness ==
    /\ pc = "exited"
    /\ event_count >= 1
    /\ write_count >= 1
    /\ clock > origin
    /\ origin = BootTicks(variant)
    /\ events[event_count].timestamp_ms > 0


StopKey(v) == IF v = "gui_windows" THEN VK_ESCAPE ELSE kVK_Escape

ZeroEvent == KeyEvent(0, 0, 0, "(null)", 0, 0, "", "", 0)

RecordFunctions == {"record_event", "record_flags_changed"}

\* the positions inside the two functions: before the stores of seq .. keycode,
\* before the stores of scancode .. is_repeat, and after the last field store
InRecord == {fn \o at : fn \in RecordFunctions, at \in {":head", ":tail", ":count"}}

record_frame == UNCHANGED <<variant, running, queue, quit_posted, handler_quit, window,
                            origin, accepted_raw, mod_in, mod_out, key_in, key_out>>

\* entry of either function: the capacity check, "now = mach_absolute_time()" and
\* "e = &events[event_count]"; events holds the slots up to and including *e
record_enter ==
    /\ variant = "gui_macos"
    /\ pc = "loop"
    /\ IF buffer_full
       THEN /\ last_outcome' = "dropped"
            /\ UNCHANGED <<pc, clock, events>>
       ELSE \E fn \in RecordFunctions, now \in Readings :
               /\ pc' = fn \o ":head"
               /\ clock' = now
               /\ events' = Append(events, ZeroEvent)
               /\ UNCHANGED last_outcome
    /\ UNCHANGED <<event_count, modifier_key_down, stops, flush_log, file, fopen_log,
                   stderr_errors, exit_code>>
    /\ record_frame

\* the flip of modifier_key_down (record_flags_changed only) and the stores of
\* seq, timestamp_ms, event_timestamp_ms, event_type and keycode; seq is the
\* event_count + 1 of entry, the index of the slot
record_store_head ==
    /\ \E fn \in RecordFunctions :
          /\ pc = fn \o ":head"
          /\ pc' = fn \o ":tail"
          /\ \E keycode \in (IF fn = "record_event" THEN {kVK_ANSI_A} ELSE ToggleKeycodes),
                kind \in {"key_down", "key_up"} :
                LET was_down == keycode < 256 /\ keycode \in modifier_key_down
                    event_type_str == IF fn = "record_event" THEN kind
                                      ELSE IF was_down THEN "key_up" ELSE "key_down"
                IN  /\ modifier_key_down' =
                          IF fn = "record_event" \/ keycode >= 256 THEN modifier_key_down
                          ELSE IF was_down THEN modifier_key_down \ {keycode}
                          ELSE modifier_key_down \cup {keycode}
                    /\ events' = [events EXCEPT ![Len(events)] =
                                     [@ EXCEPT !.seq = Len(events),
                                               !.timestamp_ms = abs_to_ms(clock - origin),
                                               !.event_timestamp_ms = event_time(variant, clock),
                                               !.event_type = event_type_str,
                                               !.keycode = keycode]]
    /\ UNCHANGED <<event_count, clock, last_outcome, stops, flush_log, file, fopen_log,
                   stderr_errors, exit_code>>
    /\ record_frame

\* the stores of scancode, character, modifiers and is_repeat
record_store_tail ==
    /\ \E fn \in RecordFunctions :
          /\ pc = fn \o ":tail"
          /\ pc' = fn \o ":count"
          /\ \E flags \in HeldSets, is_repeat \in BOOLEAN :
                events' = [events EXCEPT ![Len(events)] =
                              [@ EXCEPT !.scancode = 0,
                                        !.character =
                                            Truncate(keycode_to_char(
                                                variant, events[Len(events)].keycode), 8),
                                        !.modifiers = build_modifier_string(variant, flags),
                                        !.is_repeat = IF fn = "record_event" /\ is_repeat
                                                      THEN 1 ELSE 0]]
    /\ UNCHANGED <<event_count, modifier_key_down, clock, last_outcome, stops, flush_log,
                   file, fopen_log, stderr_errors, exit_code>>
    /\ record_frame

\* "event_count++;": the statement follows the field stores, but events[] and
\* event_count are plain objects (not volatile, not atomic) that an asynchronous
\* signal handler reads, so nothing orders this store after the field stores in
\* the built program: it can be emitted anywhere after the capacity check
record_count_store ==
    /\ pc \in InRecord
    /\ event_count < Len(events)
    /\ event_count' = event_count + 1
    /\ last_outcome' = "accepted"
    /\ UNCHANGED <<pc, events, modifier_key_down, clock, stops, flush_log, file, fopen_log,
                   stderr_errors, exit_code>>
    /\ record_frame

\* the function returns once every store was made
record_return ==
    /\ \E fn \in RecordFunctions : pc = fn \o ":count"
    /\ event_count = Len(events)
    /\ pc' = "loop"
    /\ UNCHANGED <<events, event_count, modifier_key_down, clock, last_outcome, stops,
                   flush_log, file, fopen_log, stderr_errors, exit_code>>
    /\ record_frame

\* signal_handler entered between two stores of the main thread, or in the loop
interrupting_signal_handler ==
    /\ variant = "gui_macos"
    /\ pc \in {"loop"} \cup InRecord
    /\ write_csv("signal")
    /\ pc' = "exited"
    /\ exit_code' = 0
    /\ stop_handled("interrupt")
    /\ UNCHANGED <<events, event_count, modifier_key_down, clock, last_outcome>>
    /\ record_frame

InitInterrupt == InitState("gui_macos")

NextInterrupt ==
    \/ main_start
    \/ record_enter
    \/ record_store_head
    \/ record_store_tail
    \/ record_count_store
    \/ record_return
    \/ interrupting_signal_handler

SpecInterrupt == InitInterrupt /\ [][NextInterrupt]_vars

\* every field of the record was stored
FullyInitialised(e) ==
    /\ e.seq >= 1
    /\ e.event_type \in {"key_down", "key_up"}
    /\ e.character # ""

====
